---- MODULE Spec2Model ----
(***************************************************************************)
(* Model of the chat relay of src/index.js: the onlineUsers registry, the  *)
(* socket.io event handlers that read and write it, and the periodic stale *)
(* cleanup.  One action per handler; a handler runs to completion (node's  *)
(* event loop), so each action is the whole handler.                       *)
(*                                                                         *)
(* Strings are sequences of one-character strings so that trim() can be    *)
(* computed.  The JavaScript value undefined (an absent payload field) is  *)
(* the one-element sequence <<"undefined">>, which is not a string over    *)
(* Chars.                                                                  *)
(***************************************************************************)
EXTENDS Integers, Sequences, FiniteSets, TLC

VARIABLES
    sockets,      \* transport: socket id -> "none" | "alive" | "dead"
    onlineUsers,  \* the Map of line 26, in insertion order: Seq of user records
    now,          \* the clock read by new Date() / Date.now(), in ms
    out,          \* events emitted by the handler that has just run, in order
    last,         \* the inbound event that handler was given
    prev,         \* onlineUsers as it was when that handler started
    snapshot      \* payload of the most recent online_users emission

vars == <<sockets, onlineUsers, now, out, last, prev, snapshot>>

----------------------------------------------------------------------------
(* Bounds and input alphabets *)

MaxPad == 1        \* longest run of blanks put around an input string
MaxTicks == 2      \* how many times the clock advances

\* ids the transport hands out to connections
SocketIds == { <<"x">>, <<"y">>, <<"z">> }

\* display names clients ask for; <<"x">> is also a socket id
BaseNames == { <<"a">>, <<"x">> }

undefined == <<"undefined">>

Spaces(n) == [i \in 1..n |-> " "]

\* s bare, and with the longest run of blanks before it, after it, and both
Padded(s) == { Spaces(l) \o s \o Spaces(r) : l \in {0, MaxPad}, r \in {0, MaxPad} }

\* values a client may put in a username / targetUser field
NameInputs ==
    {undefined} \cup { Spaces(k) : k \in 0..MaxPad }
                \cup UNION { Padded(n) : n \in BaseNames }

\* the usernames tried while time passes: a name, the same name after blanks,
\* another name, and no name
JoinSample == { <<"a">>, Spaces(MaxPad) \o <<"a">>, <<"x">>, <<>> }

\* values a client may put in a message field
MessageInputs == { undefined, <<>>, <<" ">>, <<"h">>, <<" ", "h", " ">> }

\* values a client may put in the id field of image_upload
IdInputs == BaseNames \cup SocketIds

\* the clock advances in steps of the staleness threshold, so that a session
\* is seen younger than, exactly at, and older than the threshold
staleThreshold == 5 * 60 * 1000
TickMs == staleThreshold

----------------------------------------------------------------------------
(* JavaScript helpers *)

IsSpace(ch) == ch = " "

RECURSIVE TrimStart(_)
TrimStart(s) ==
    IF s = <<>> THEN <<>>
    ELSE IF IsSpace(Head(s)) THEN TrimStart(Tail(s)) ELSE s

RECURSIVE TrimEnd(_)
TrimEnd(s) ==
    IF s = <<>> THEN <<>>
    ELSE IF IsSpace(s[Len(s)]) THEN TrimEnd(SubSeq(s, 1, Len(s) - 1)) ELSE s

\* a trim that forgets the trailing blanks
TrimLeading(s) == TrimStart(s)

\* String.prototype.trim
Trim(s) == TrimEnd(TrimStart(s))

\* !v for a value that is undefined or a string
Falsy(v) == v = undefined \/ v = <<>>

\* the value null / undefined returned by a failed lookup
null == [username |-> <<>>, socketId |-> <<>>, joinTime |-> -1]

----------------------------------------------------------------------------
(* The registry *)

Min(S) == CHOOSE m \in S : \A k \in S : m <= k

\* Map.prototype.get on a given Map
MapGet(users, id) ==
    LET hits == { i \in 1..Len(users) : users[i].socketId = id }
    IN  IF hits = {} THEN null ELSE users[Min(hits)]

\* Map.prototype.set: an existing key keeps its place, a new key goes last
MapSet(users, id, user) ==
    IF \E i \in 1..Len(users) : users[i].socketId = id
    THEN [i \in 1..Len(users) |-> IF users[i].socketId = id THEN user ELSE users[i]]
    ELSE Append(users, user)

\* Map.prototype.delete
MapDelete(users, id) == SelectSeq(users, LAMBDA u : u.socketId # id)

\* findUserByUsername on a given Map: the first entry with that exact username
FindIn(users, username) ==
    LET hits == { i \in 1..Len(users) : users[i].username = username }
    IN  IF hits = {} THEN null ELSE users[Min(hits)]

findUserByUsername(username) == FindIn(onlineUsers, username)

getOnlineUsersList(users) == users

\* sockets the server can reach with io.emit
Connected == { c \in SocketIds : sockets[c] = "alive" }

\* one emission: event name, the set of socket ids it is addressed to, payload
Emit(ev, to, payload) == [ev |-> ev, to |-> to, payload |-> payload]

\* io.emit('online_users', getOnlineUsersList())
broadcastOnlineUsers(users) ==
    Emit("online_users", Connected, getOnlineUsersList(users))

\* an error sent with io.emit instead of socket.emit
ErrorToAll(c, text, arg) == Emit("error", Connected, [message |-> text, arg |-> arg])

\* socket.emit('error', { message }); arg is the string spliced into the text
Error(c, text, arg) == Emit("error", {c}, [message |-> text, arg |-> arg])

Event(ev, c, name, message) ==
    [ev |-> ev, socket |-> c, name |-> name, message |-> message]

Idle == last.ev = "idle"

\* the payload of the last online_users emission of o, or the one seen before
Observe(o) ==
    LET hits == { i \in 1..Len(o) : o[i].ev = "online_users" }
    IN  IF hits = {} THEN snapshot
        ELSE o[CHOOSE i \in hits : \A j \in hits : j <= i].payload

----------------------------------------------------------------------------
Init ==
    /\ sockets = [c \in SocketIds |-> "none"]
    /\ onlineUsers = <<>>
    /\ now = 0
    /\ out = <<>>
    /\ last = Event("idle", <<>>, undefined, undefined)
    /\ prev = <<>>
    /\ snapshot = <<>>

\* the handler's emissions have been written out; the event loop takes the
\* next event
Flush ==
    /\ ~Idle
    /\ out' = <<>>
    /\ last' = Event("idle", <<>>, undefined, undefined)
    /\ prev' = onlineUsers
    /\ UNCHANGED <<sockets, onlineUsers, now, snapshot>>

\* io.on('connection'): the transport accepts a connection with a fresh id
Connect(c) ==
    /\ Idle
    /\ sockets[c] = "none"
    /\ sockets' = [sockets EXCEPT ![c] = "alive"]
    /\ UNCHANGED <<onlineUsers, now, out, last, prev, snapshot>>

\* the connection of a joined client dies and the transport has not (yet)
\* delivered 'disconnect': the case the cleanup exists for
Drop(c) ==
    /\ Idle
    /\ sockets[c] = "alive"
    /\ \E i \in 1..Len(onlineUsers) : onlineUsers[i].socketId = c
    /\ sockets' = [sockets EXCEPT ![c] = "dead"]
    /\ UNCHANGED <<onlineUsers, now, out, last, prev, snapshot>>

Tick ==
    /\ Idle
    /\ now < MaxTicks * TickMs
    /\ now' = now + TickMs
    /\ UNCHANGED <<sockets, onlineUsers, out, last, prev, snapshot>>

\* what user_join emits and stores, given the registry and the payload
JoinResult(users, c, username) ==
    IF Falsy(username) \/ Trim(username) = <<>>
    THEN [users |-> users, out |-> << Error(c, "Username is required", <<>>) >>]
    ELSE IF FindIn(users, username) # null
    THEN [users |-> users, out |-> << Error(c, "Username is already taken", <<>>) >>]
    ELSE LET joined == MapSet(users, c,
                          [username |-> Trim(username), socketId |-> c, joinTime |-> now])
         IN  [users |-> joined,
              out |-> << Emit("user_joined", Connected \ {c},
                              [username |-> Trim(username), socketId |-> c]),
                         broadcastOnlineUsers(joined),
                         Emit("join_success", {c},
                              [username |-> Trim(username),
                               onlineUsers |-> getOnlineUsersList(joined)]) >>]

user_join(c, username) ==
    /\ Idle
    /\ sockets[c] = "alive"
    /\ LET r == JoinResult(onlineUsers, c, username)
       IN  /\ onlineUsers' = r.users
           /\ out' = r.out
           /\ snapshot' = Observe(r.out)
    /\ last' = Event("user_join", c, username, undefined)
    /\ prev' = onlineUsers
    /\ UNCHANGED <<sockets, now>>

\* a disconnect handler without the test that the socket held a session
DisconnectResultAlways(users, c) ==
    LET user == MapGet(users, c)
        left == MapDelete(users, c)
        rest == Connected \ {c}
    IN  [users |-> left,
         out |-> << Emit("user_left", rest,
                         [username |-> user.username, socketId |-> c]),
                    Emit("online_users", rest, getOnlineUsersList(left)) >>]

\* a disconnect handler that reads the list before deleting the session
DisconnectResultEarlyList(users, c) ==
    LET user == MapGet(users, c)
        left == MapDelete(users, c)
        rest == Connected \ {c}
    IN  IF user # null
        THEN [users |-> left,
              out |-> << Emit("user_left", rest,
                              [username |-> user.username, socketId |-> c]),
                         Emit("online_users", rest, getOnlineUsersList(users)) >>]
        ELSE [users |-> users, out |-> <<>>]

\* what the disconnect handler of socket c stores and emits; the socket has
\* already left the server's socket table when the handler runs
DisconnectResult(users, c) ==
    LET user == MapGet(users, c)
        left == MapDelete(users, c)
        rest == Connected \ {c}
    IN  IF user # null
        THEN [users |-> left,
              out |-> << Emit("user_left", rest,
                              [username |-> user.username, socketId |-> c]),
                         Emit("online_users", rest, getOnlineUsersList(left)) >>]
        ELSE [users |-> users, out |-> <<>>]

\* the reason the transport gives the disconnect handler: the client closed
\* the connection, or a connection that had died was finally timed out
DisconnectReason(c) ==
    IF sockets[c] = "alive" THEN <<"transport close">> ELSE <<"ping timeout">>

\* socket.on('disconnect')
disconnect(c) ==
    /\ Idle
    /\ sockets[c] \in {"alive", "dead"}
    /\ sockets' = [sockets EXCEPT ![c] = "none"]
    /\ LET r == DisconnectResult(onlineUsers, c)
       IN  /\ onlineUsers' = r.users
           /\ out' = r.out
           /\ snapshot' = Observe(r.out)
    /\ last' = Event("disconnect", c, DisconnectReason(c), undefined)
    /\ prev' = onlineUsers
    /\ UNCHANGED now

\* a liveness test that forgets the sockets that are present but not connected
SocketUnknown(id) == sockets[id] = "none"

\* the liveness test of the cleanup: no socket with that id, or not connected
SocketGone(id) == sockets[id] # "alive"

\* a staleness test that includes the threshold itself
IsStaleAtThreshold(user) == now - user.joinTime >= staleThreshold

IsStale(user) == now - user.joinTime > staleThreshold

\* a cleanup that deletes without telling the clients
RECURSIVE SweepFromSilent(_, _, _)
SweepFromSilent(i, entries, acc) ==
    IF i > Len(entries) THEN acc
    ELSE LET user == entries[i]
         IN  IF IsStale(user) /\ SocketGone(user.socketId)
             THEN SweepFromSilent(i + 1, entries,
                                  [users |-> MapDelete(acc.users, user.socketId),
                                   out |-> acc.out])
             ELSE SweepFromSilent(i + 1, entries, acc)

\* the for-of loop of the cleanup over the entries as they were at the start
\* (deleting the current entry does not disturb the iteration); acc holds the
\* Map and the emissions so far
RECURSIVE SweepFrom(_, _, _)
SweepFrom(i, entries, acc) ==
    IF i > Len(entries) THEN acc
    ELSE LET user == entries[i]
         IN  IF IsStale(user) /\ SocketGone(user.socketId)
             THEN LET left == MapDelete(acc.users, user.socketId)
                  IN  SweepFrom(i + 1, entries,
                                [users |-> left,
                                 out |-> Append(acc.out, broadcastOnlineUsers(left))])
             ELSE SweepFrom(i + 1, entries, acc)

\* the setInterval callback
Sweep ==
    /\ Idle
    /\ LET r == SweepFrom(1, onlineUsers, [users |-> onlineUsers, out |-> <<>>])
       IN  /\ onlineUsers' = r.users
           /\ out' = r.out
           /\ snapshot' = Observe(r.out)
    /\ last' = Event("sweep", <<>>, undefined, undefined)
    /\ prev' = onlineUsers
    /\ UNCHANGED <<sockets, now>>

----------------------------------------------------------------------------
(* The routing handlers *)

\* the parts of a media payload the server only passes on
Buffer == <<"b0", "b1">>
MediaType == "image/png"
Filename == "pic.png"

\* send_message without the test that the sender has joined
SendResultUnchecked(c, targetUser, message) ==
    LET sender == MapGet(onlineUsers, c)
    IN  IF Falsy(targetUser) \/ Falsy(message)
        THEN << Error(c, "Target user and message are required", <<>>) >>
        ELSE LET targetUserObj == findUserByUsername(Trim(targetUser))
             IN  IF targetUserObj = null
                 THEN << Error(c, "User is not online", targetUser) >>
                 ELSE << Emit("receive_message", {targetUserObj.socketId},
                              [from |-> sender.username, message |-> Trim(message),
                               timestamp |-> now]),
                         Emit("message_sent", {c},
                              [to |-> targetUser, message |-> Trim(message),
                               timestamp |-> now]) >>

\* send_message delivering with io.emit instead of io.to(socketId).emit
SendResultToAll(c, targetUser, message) ==
    LET sender == MapGet(onlineUsers, c)
    IN  IF sender = null
        THEN << Error(c, "Please join with a username first", <<>>) >>
        ELSE IF Falsy(targetUser) \/ Falsy(message)
        THEN << Error(c, "Target user and message are required", <<>>) >>
        ELSE LET targetUserObj == findUserByUsername(Trim(targetUser))
             IN  IF targetUserObj = null
                 THEN << Error(c, "User is not online", targetUser) >>
                 ELSE << Emit("receive_message", Connected,
                              [from |-> sender.username, message |-> Trim(message),
                               timestamp |-> now]),
                         Emit("message_sent", {c},
                              [to |-> targetUser, message |-> Trim(message),
                               timestamp |-> now]) >>

\* what send_message emits, given the payload
SendResult(c, targetUser, message) ==
    LET sender == MapGet(onlineUsers, c)
    IN  IF sender = null
        THEN << Error(c, "Please join with a username first", <<>>) >>
        ELSE IF Falsy(targetUser) \/ Falsy(message)
        THEN << Error(c, "Target user and message are required", <<>>) >>
        ELSE LET targetUserObj == findUserByUsername(Trim(targetUser))
             IN  IF targetUserObj = null
                 THEN << Error(c, "User is not online", targetUser) >>
                 ELSE << Emit("receive_message", {targetUserObj.socketId},
                              [from |-> sender.username, message |-> Trim(message),
                               timestamp |-> now]),
                         Emit("message_sent", {c},
                              [to |-> targetUser, message |-> Trim(message),
                               timestamp |-> now]) >>

send_message(c, targetUser, message) ==
    /\ Idle
    /\ sockets[c] = "alive"
    /\ out' = SendResult(c, targetUser, message)
    /\ last' = Event("send_message", c, targetUser, message)
    /\ prev' = onlineUsers
    /\ UNCHANGED <<sockets, onlineUsers, now, snapshot>>

\* what media_upload emits, given the payload
MediaResult(c, targetUser) ==
    LET sender == MapGet(onlineUsers, c)
    IN  IF sender = null
        THEN << Error(c, "Please join with a username first", <<>>) >>
        ELSE IF Falsy(targetUser) \/ Trim(targetUser) = <<>>
        THEN << Error(c, "Target user is required", <<>>) >>
        ELSE LET targetUserObj == findUserByUsername(Trim(targetUser))
             IN  IF targetUserObj = null
                 THEN << Error(c, "User is not online", targetUser) >>
                 ELSE << Emit("get_media", {targetUserObj.socketId},
                              [buffer |-> Buffer, mediaType |-> MediaType,
                               filename |-> Filename, from |-> sender.username,
                               timestamp |-> now]),
                         Emit("media_sent", {c},
                              [to |-> targetUser, filename |-> Filename,
                               mediaType |-> MediaType, size |-> Len(Buffer)]) >>

media_upload(c, targetUser) ==
    /\ Idle
    /\ sockets[c] = "alive"
    /\ out' = MediaResult(c, targetUser)
    /\ last' = Event("media_upload", c, targetUser, undefined)
    /\ prev' = onlineUsers
    /\ UNCHANGED <<sockets, onlineUsers, now, snapshot>>

\* a typing handler without the test that the sender has joined
TypingResultUnchecked(c, targetUser, isTyping) ==
    LET sender == MapGet(onlineUsers, c)
    IN  IF ~Falsy(targetUser)
        THEN LET targetUserObj == findUserByUsername(targetUser)
             IN  IF targetUserObj # null
                 THEN << Emit("user_typing", {targetUserObj.socketId},
                              [username |-> sender.username, isTyping |-> isTyping]) >>
                 ELSE <<>>
        ELSE <<>>

\* the body shared by typing_start (isTyping TRUE) and typing_stop (FALSE)
TypingResult(c, targetUser, isTyping) ==
    LET sender == MapGet(onlineUsers, c)
    IN  IF sender # null /\ ~Falsy(targetUser)
        THEN LET targetUserObj == findUserByUsername(targetUser)
             IN  IF targetUserObj # null
                 THEN << Emit("user_typing", {targetUserObj.socketId},
                              [username |-> sender.username, isTyping |-> isTyping]) >>
                 ELSE <<>>
        ELSE <<>>

\* a typing_start that also records the typing state in the sender's session
typing_startMarking(c, targetUser) ==
    /\ Idle
    /\ sockets[c] = "alive"
    /\ out' = TypingResult(c, targetUser, TRUE)
    /\ last' = Event("typing_start", c, targetUser, undefined)
    /\ prev' = onlineUsers
    /\ onlineUsers' =
           [i \in 1..Len(onlineUsers) |->
               IF onlineUsers[i].socketId = c
               THEN [username |-> onlineUsers[i].username, socketId |-> c,
                     joinTime |-> onlineUsers[i].joinTime, typing |-> TRUE]
               ELSE onlineUsers[i]]
    /\ UNCHANGED <<sockets, now, snapshot>>

typing_start(c, targetUser) ==
    /\ Idle
    /\ sockets[c] = "alive"
    /\ out' = TypingResult(c, targetUser, TRUE)
    /\ last' = Event("typing_start", c, targetUser, undefined)
    /\ prev' = onlineUsers
    /\ UNCHANGED <<sockets, onlineUsers, now, snapshot>>

typing_stop(c, targetUser) ==
    /\ Idle
    /\ sockets[c] = "alive"
    /\ out' = TypingResult(c, targetUser, FALSE)
    /\ last' = Event("typing_stop", c, targetUser, undefined)
    /\ prev' = onlineUsers
    /\ UNCHANGED <<sockets, onlineUsers, now, snapshot>>

\* a legacy handler that tries the socket id before the username
ImageResultIdFirst(id) ==
    LET byId == MapGet(onlineUsers, id)
        targetUser == IF byId # null THEN byId ELSE findUserByUsername(id)
    IN  IF targetUser # null
        THEN << Emit("get_image", {targetUser.socketId}, [buffer |-> Buffer]) >>
        ELSE << Emit("get_image", {id}, [buffer |-> Buffer]) >>

\* the legacy handler: findUserByUsername(id) || onlineUsers.get(id), else id
ImageResult(id) ==
    LET byName == findUserByUsername(id)
        targetUser == IF byName # null THEN byName ELSE MapGet(onlineUsers, id)
    IN  IF targetUser # null
        THEN << Emit("get_image", {targetUser.socketId}, [buffer |-> Buffer]) >>
        ELSE << Emit("get_image", {id}, [buffer |-> Buffer]) >>

image_upload(c, id) ==
    /\ Idle
    /\ sockets[c] = "alive"
    /\ out' = ImageResult(id)
    /\ last' = Event("image_upload", c, id, undefined)
    /\ prev' = onlineUsers
    /\ UNCHANGED <<sockets, onlineUsers, now, snapshot>>

\* get_user_info: the reply goes through the acknowledgement callback, when
\* the client passed one
get_user_info(c, callback) ==
    /\ Idle
    /\ sockets[c] = "alive"
    /\ out' = IF callback
              THEN << Emit("callback", {c},
                           [user |-> MapGet(onlineUsers, c),
                            onlineUsers |-> getOnlineUsersList(onlineUsers)]) >>
              ELSE <<>>
    /\ last' = Event("get_user_info", c,
                     IF callback THEN <<"function">> ELSE undefined, undefined)
    /\ prev' = onlineUsers
    /\ UNCHANGED <<sockets, onlineUsers, now, snapshot>>

ping(c) ==
    /\ Idle
    /\ sockets[c] = "alive"
    /\ out' = << Emit("pong", {c}, <<>>) >>
    /\ last' = Event("ping", c, undefined, undefined)
    /\ prev' = onlineUsers
    /\ UNCHANGED <<sockets, onlineUsers, now, snapshot>>

----------------------------------------------------------------------------
\* the whole server: connections come and go, clients join, time passes, the
\* cleanup runs, and clients send one routing or query event of each kind
Next ==
    \/ Flush
    \/ Tick
    \/ Sweep
    \/ \E c \in SocketIds : Connect(c)
    \/ \E c \in SocketIds : Drop(c)
    \/ \E c \in SocketIds : disconnect(c)
    \/ \E c \in SocketIds, username \in JoinSample : user_join(c, username)
    \/ \E c \in SocketIds : send_message(c, <<"a">>, <<"h">>)
    \/ \E c \in SocketIds : media_upload(c, <<"a">>)
    \/ \E c \in SocketIds : typing_start(c, <<"a">>)
    \/ \E c \in SocketIds : typing_stop(c, <<"a">>)
    \/ \E c \in SocketIds : image_upload(c, <<"x">>)
    \/ \E c \in SocketIds : get_user_info(c, TRUE)
    \/ \E c \in SocketIds : ping(c)

Spec == Init /\ [][Next]_vars

\* the clock of the model still runs far enough for a session registered now
\* to grow older than the staleness threshold
CanGrowStale == now + staleThreshold + TickMs <= MaxTicks * TickMs

\* a user_join early enough for the cleanup to be due within the model's time
EarlyJoin(c, username) == CanGrowStale /\ user_join(c, username)

\* the registry and its cleanup under the scheduling node guarantees
LiveNext ==
    \/ Flush
    \/ Tick
    \/ Sweep
    \/ \E c \in SocketIds : Connect(c)
    \/ \E c \in SocketIds : Drop(c)
    \/ \E c \in SocketIds : disconnect(c)
    \/ \E c \in SocketIds, username \in JoinSample : EarlyJoin(c, username)

\* every handler returns (Flush); the clock keeps advancing and the interval
\* timer keeps firing whatever other events arrive in between, so Tick and
\* Sweep, which are only enabled between two handlers, are taken again and
\* again
LiveSpec ==
    /\ Init
    /\ [][LiveNext]_vars
    /\ WF_vars(Flush)
    /\ SF_vars(Tick)
    /\ SF_vars(Sweep)

\* the router alone, on every input: clients join and leave and send routing
\* and query events; no connection is lost silently and no time passes
RouteNext ==
    \/ Flush
    \/ \E c \in SocketIds : Connect(c)
    \/ \E c \in SocketIds : disconnect(c)
    \/ \E c \in SocketIds, username \in NameInputs : user_join(c, username)
    \/ \E c \in SocketIds, targetUser \in NameInputs, message \in MessageInputs :
          send_message(c, targetUser, message)
    \/ \E c \in SocketIds, targetUser \in NameInputs : media_upload(c, targetUser)
    \/ \E c \in SocketIds, targetUser \in NameInputs : typing_start(c, targetUser)
    \/ \E c \in SocketIds, targetUser \in NameInputs : typing_stop(c, targetUser)
    \/ \E c \in SocketIds, id \in IdInputs : image_upload(c, id)
    \/ \E c \in SocketIds, callback \in BOOLEAN : get_user_info(c, callback)
    \/ \E c \in SocketIds : ping(c)

RouteSpec == Init /\ [][RouteNext]_vars

----------------------------------------------------------------------------
(* Vocabulary of the properties, stated without the model's helpers *)

\* the emissions of the last handler with event name ev addressed to socket c
Received(c, ev) == { i \in 1..Len(out) : out[i].ev = ev /\ c \in out[i].to }

\* the emissions of the last handler with event name ev
Emitted(ev) == { i \in 1..Len(out) : out[i].ev = ev }

\* s is undefined, empty or made of blanks only
Blank(s) == s = undefined \/ \A i \in 1..Len(s) : s[i] = " "

NoOuterSpace(t) == t = <<>> \/ (t[1] # " " /\ t[Len(t)] # " ")

\* t is s without its leading and trailing blanks
IsTrimOf(t, s) ==
    /\ NoOuterSpace(t)
    /\ \E l \in 0..Len(s), r \in 0..Len(s) : s = Spaces(l) \o t \o Spaces(r)

\* the sessions of a registry that carry display name t
Named(users, t) == { i \in 1..Len(users) : users[i].username = t }

\* the sessions of a registry bound to socket c
BoundTo(users, c) == { i \in 1..Len(users) : users[i].socketId = c }

\* the last inbound event is a user_join whose name trims to a name that a
\* session held when the handler started
JoinOfTakenName ==
    /\ last.ev = "user_join"
    /\ ~Blank(last.name)
    /\ \E i \in 1..Len(prev) : IsTrimOf(prev[i].username, last.name)

----------------------------------------------------------------------------
(* C1: in every reachable state no two sessions of the registry have the
   same display name. *)
C1_UniqueNames ==
    \A i \in 1..Len(onlineUsers), j \in 1..Len(onlineUsers) :
        i # j => onlineUsers[i].username # onlineUsers[j].username

(* C2: a user_join whose trimmed name is the display name of a session in the
   registry (the joiner's own included) gets the one error 'Username is
   already taken', emits nothing else, and leaves the registry unchanged. *)
C2_TakenNameRejected ==
    JoinOfTakenName =>
        /\ Len(out) = 1
        /\ out[1].ev = "error"
        /\ out[1].to = {last.socket}
        /\ out[1].payload.message = "Username is already taken"
        /\ onlineUsers = prev

(* C3: a user_join with an absent, empty or blank username gets the one error
   'Username is required' and leaves the registry unchanged; a user_join with
   a name that is free once trimmed succeeds and stores the trimmed name; and
   every display name in the registry is non-empty with no blank at either
   end. *)
C3_NameValidation ==
    /\ (last.ev = "user_join" /\ Blank(last.name)) =>
           /\ Len(out) = 1
           /\ out[1].ev = "error"
           /\ out[1].to = {last.socket}
           /\ out[1].payload.message = "Username is required"
           /\ onlineUsers = prev
    /\ (last.ev = "user_join" /\ ~Blank(last.name) /\ ~JoinOfTakenName) =>
           /\ Received(last.socket, "join_success") # {}
           /\ \E i \in BoundTo(onlineUsers, last.socket) :
                  IsTrimOf(onlineUsers[i].username, last.name)
    /\ \A i \in 1..Len(onlineUsers) :
           /\ onlineUsers[i].username # <<>>
           /\ NoOuterSpace(onlineUsers[i].username)

\* a join with a free name that has blanks on both sides has succeeded
C3_Witness ==
    /\ last.ev = "user_join"
    /\ ~Blank(last.name)
    /\ last.name[1] = " "
    /\ last.name[Len(last.name)] = " "
    /\ Received(last.socket, "join_success") # {}
    /\ Len(prev) > 0

\* the sessions (places in prev) that the last handler, a disconnect or a
\* cleanup, was due to remove
Departed ==
    IF last.ev = "disconnect" THEN BoundTo(prev, last.socket)
    ELSE IF last.ev = "sweep"
    THEN { i \in 1..Len(prev) : /\ now - prev[i].joinTime > staleThreshold
                                /\ sockets[prev[i].socketId] # "alive" }
    ELSE {}

(* C4: once the session of socket c has been removed, by disconnect or by the
   cleanup, a lookup by c finds no session and a user_join with the removed
   display name, from any socket, succeeds. *)
C4_RemovedNameFree ==
    \A i \in Departed :
        /\ MapGet(onlineUsers, prev[i].socketId) = null
        /\ \A c \in SocketIds :
               \E k \in 1..3 :
                   LET e == JoinResult(onlineUsers, c, prev[i].username).out
                   IN  k <= Len(e) /\ e[k].ev = "join_success" /\ e[k].to = {c}

----------------------------------------------------------------------------
\* the sender of the last inbound event had a session when the handler started
SenderJoined == BoundTo(prev, last.socket) # {}

(* C5: a send_message from a socket with no session yields exactly one event,
   the error 'Please join with a username first' to that sender, and no
   receive_message or message_sent, whatever targetUser and message are. *)
C5_SendWithoutSession ==
    (last.ev = "send_message" /\ ~SenderJoined) =>
        /\ Len(out) = 1
        /\ out[1].ev = "error"
        /\ out[1].to = {last.socket}
        /\ out[1].payload.message = "Please join with a username first"
        /\ Emitted("receive_message") = {}
        /\ Emitted("message_sent") = {}

\* a socket without a session has sent a well-formed message to a live name
C5_Witness ==
    /\ last.ev = "send_message"
    /\ ~SenderJoined
    /\ last.name = <<"a">>
    /\ last.message = <<"h">>
    /\ Named(prev, <<"a">>) # {}
    /\ Len(out) = 1

\* the last inbound event is a well-formed send_message of a joined sender
\* whose target, once trimmed, names no session
SendToNobody ==
    /\ last.ev = "send_message"
    /\ SenderJoined
    /\ last.name \notin {undefined, <<>>}
    /\ last.message \notin {undefined, <<>>}
    /\ \A i \in 1..Len(prev) : ~IsTrimOf(prev[i].username, last.name)

(* C6: when a handler emits an error, every event of that step is addressed
   to the socket whose inbound event it was and the registry is unchanged; a
   well-formed send_message to a name with no session yields the one error
   'not online', naming the target, to the sender. *)
C6_ErrorsToOriginOnly ==
    /\ Emitted("error") # {} =>
           /\ \A i \in 1..Len(out) : out[i].to = {last.socket}
           /\ onlineUsers = prev
    /\ SendToNobody =>
           /\ Len(out) = 1
           /\ out[1].ev = "error"
           /\ out[1].to = {last.socket}
           /\ out[1].payload.message = "User is not online"
           /\ out[1].payload.arg = last.name

\* 'not online' has been answered while three sockets were connected and two
\* other clients were registered
C6_Witness ==
    /\ SendToNobody
    /\ Emitted("error") # {}
    /\ Cardinality(Connected) = 3
    /\ Len(prev) = 3

\* the last inbound event is a send_message of a joined sender with a
\* non-empty message and a target that, once trimmed, names a session
SendToSomebody ==
    /\ last.ev = "send_message"
    /\ SenderJoined
    /\ last.name \notin {undefined, <<>>}
    /\ last.message \notin {undefined, <<>>}
    /\ \E i \in 1..Len(prev) : IsTrimOf(prev[i].username, last.name)

\* the session the target resolves to: the first one, in registration order,
\* whose display name is the trimmed target
Recipient ==
    prev[CHOOSE i \in 1..Len(prev) :
             /\ IsTrimOf(prev[i].username, last.name)
             /\ \A j \in 1..(i - 1) : ~IsTrimOf(prev[j].username, last.name)]

Sender == prev[CHOOSE i \in BoundTo(prev, last.socket) : TRUE]

\* one receive_message to the recipient's socket from the sender's display
\* name, one message_sent to the sender's socket, and nothing else
OneDeliveryOneEcho ==
    /\ Len(out) = 2
    /\ Cardinality(Emitted("receive_message")) = 1
    /\ Cardinality(Emitted("message_sent")) = 1
    /\ \A i \in Emitted("receive_message") :
           /\ out[i].to = {Recipient.socketId}
           /\ out[i].payload.from = Sender.username
    /\ \A i \in Emitted("message_sent") : out[i].to = {last.socket}

(* C7 as stated: on such a send_message, one receive_message carrying the
   sender's display name and the message goes to the recipient's socket, one
   message_sent goes to the sender's socket, and nothing goes anywhere else. *)
C7_DeliversMessageAsSent ==
    SendToSomebody =>
        /\ OneDeliveryOneEcho
        /\ \A i \in Emitted("receive_message") : out[i].payload.message = last.message

(* C7 as amended: the same, the receive_message carrying the message with its
   leading and trailing blanks removed. *)
C7_DeliversTrimmedMessage ==
    SendToSomebody =>
        /\ OneDeliveryOneEcho
        /\ \A i \in Emitted("receive_message") :
               IsTrimOf(out[i].payload.message, last.message)

\* a message with blanks around it has gone from one client to another while a
\* third socket was connected
C7_Witness ==
    /\ SendToSomebody
    /\ last.message = <<" ", "h", " ">>
    /\ Recipient.socketId # last.socket
    /\ Cardinality(Connected) = 3
    /\ Emitted("receive_message") # {}

----------------------------------------------------------------------------
(* C8: when a socket holding a session disconnects, every remaining connected
   socket receives exactly one user_left, naming the departed display name,
   and exactly one online_users whose list holds no session of the departed
   socket; the disconnect of a socket without a session emits nothing. *)
C8_DisconnectNotices ==
    last.ev = "disconnect" =>
        IF BoundTo(prev, last.socket) # {}
        THEN \A c \in Connected :
                 /\ Cardinality(Received(c, "user_left")) = 1
                 /\ \A i \in Received(c, "user_left"), k \in BoundTo(prev, last.socket) :
                        out[i].payload.username = prev[k].username
                 /\ Cardinality(Received(c, "online_users")) = 1
                 /\ \A i \in Received(c, "online_users") :
                        BoundTo(out[i].payload, last.socket) = {}
        ELSE out = <<>>

\* a joined client has disconnected while two sockets stayed connected, one of
\* them joined
C8_Witness ==
    /\ last.ev = "disconnect"
    /\ BoundTo(prev, last.socket) # {}
    /\ Cardinality(Connected) = 2
    /\ Len(onlineUsers) >= 1
    /\ Len(out) = 2

(* C9: a cleanup run removes every session that is older than the staleness
   threshold and whose socket is not alive, with one online_users emission for
   each, and leaves every other session in the registry as it was. *)
C9_SweepRemovesDeadStale ==
    last.ev = "sweep" =>
        /\ \A i \in 1..Len(prev) :
               IF i \in Departed
               THEN BoundTo(onlineUsers, prev[i].socketId) = {}
               ELSE \E k \in 1..Len(onlineUsers) : onlineUsers[k] = prev[i]
        /\ Len(onlineUsers) = Len(prev) - Cardinality(Departed)
        /\ Len(out) = Cardinality(Departed)
        /\ \A i \in 1..Len(out) : out[i].ev = "online_users"

\* one cleanup run has removed a dead session past the threshold and kept both
\* a live session past the threshold and a dead session exactly at it
C9_Witness ==
    /\ last.ev = "sweep"
    /\ Len(out) = 1
    /\ \E i \in 1..Len(onlineUsers) :
           /\ now - onlineUsers[i].joinTime > staleThreshold
           /\ sockets[onlineUsers[i].socketId] = "alive"
    /\ \E i \in 1..Len(onlineUsers) :
           /\ now - onlineUsers[i].joinTime = staleThreshold
           /\ sockets[onlineUsers[i].socketId] = "dead"

(* C10: the number of online_users emissions of a step is one for a successful
   user_join, one per removed session for a disconnect or a cleanup run, and
   zero for every other event; a step without one leaves the registry as it
   was; the last one of a step carries the registry as the step leaves it; so
   the most recent online_users payload always equals the registry. *)
C10_BroadcastOnChange ==
    LET n == Cardinality(Emitted("online_users"))
    IN  /\ last.ev = "user_join" =>
               n = IF Emitted("join_success") # {} THEN 1 ELSE 0
        /\ last.ev \in {"disconnect", "sweep"} => n = Cardinality(Departed)
        /\ last.ev \notin {"user_join", "disconnect", "sweep"} => n = 0
        /\ n = 0 => onlineUsers = prev
        /\ \A i \in Emitted("online_users") :
               (\A j \in Emitted("online_users") : j <= i) =>
                   out[i].payload = onlineUsers
        /\ snapshot = onlineUsers

\* one cleanup run has removed two sessions and kept one
C10_Witness ==
    /\ last.ev = "sweep"
    /\ Cardinality(Emitted("online_users")) = 2
    /\ Len(onlineUsers) = 1

----------------------------------------------------------------------------
(* C11: every removal of a session, by a disconnect or by the cleanup, comes
   with a user_left naming the departed display name to every connected
   socket that remains, and with an online_users emission to it. *)
C11_RemovalAnnounced ==
    \A i \in Departed :
      \A c \in Connected \ {prev[i].socketId} :
        /\ \E k \in Received(c, "user_left") :
               out[k].payload.username = prev[i].username
        /\ Received(c, "online_users") # {}

(* C12: a session is never changed while it lives: a socket that had a
   session when a handler started and has one when it ends has the same
   display name and join time in both. *)
C12_SessionImmutable ==
    \A i \in 1..Len(prev), k \in 1..Len(onlineUsers) :
        onlineUsers[k].socketId = prev[i].socketId =>
            /\ onlineUsers[k].username = prev[i].username
            /\ onlineUsers[k].joinTime = prev[i].joinTime

----------------------------------------------------------------------------
\* the event names of the payload deliveries of the router
Deliveries == { "get_media", "receive_message", "user_typing", "get_image" }

NothingDelivered == \A i \in 1..Len(out) : out[i].ev \notin Deliveries

(* C13 as stated: when the sender of a media_upload, send_message,
   typing_start, typing_stop or image_upload has no session, no get_media,
   receive_message, user_typing or get_image is emitted. *)
C13_UnjoinedDeliversNothing ==
    (/\ last.ev \in { "media_upload", "send_message", "typing_start",
                      "typing_stop", "image_upload" }
     /\ ~SenderJoined) => NothingDelivered

(* C13 as amended: the same for media_upload, send_message, typing_start and
   typing_stop; image_upload does not look at its sender and emits get_image
   whether or not the sender has a session. *)
C13_UnjoinedDeliversNothingButLegacy ==
    /\ (/\ last.ev \in { "media_upload", "send_message", "typing_start",
                         "typing_stop" }
        /\ ~SenderJoined) => NothingDelivered
    /\ last.ev = "image_upload" => Emitted("get_image") # {}

\* a socket without a session has sent a typing signal for a live name
C13_Witness ==
    /\ last.ev = "typing_start"
    /\ ~SenderJoined
    /\ Named(prev, last.name) # {}
    /\ out = <<>>

(* C14: image_upload makes exactly one emission, a get_image, and no error:
   to the socket of the first session whose display name is id, if there is
   one, even when id is also the socket id of another session; otherwise to
   the socket id of the session bound to id; otherwise to id itself. *)
C14_LegacyResolution ==
    last.ev = "image_upload" =>
        /\ Len(out) = 1
        /\ out[1].ev = "get_image"
        /\ IF Named(prev, last.name) # {}
           THEN \E i \in Named(prev, last.name) :
                    /\ \A j \in Named(prev, last.name) : i <= j
                    /\ out[1].to = {prev[i].socketId}
           ELSE IF BoundTo(prev, last.name) # {}
           THEN \E i \in BoundTo(prev, last.name) : out[1].to = {prev[i].socketId}
           ELSE out[1].to = {last.name}

\* the id is both the display name of one session and the socket id of
\* another, and the image went to the session with that display name
C14_Witness ==
    /\ last.ev = "image_upload"
    /\ BoundTo(prev, last.name) # {}
    /\ \E i \in Named(prev, last.name) :
           /\ prev[i].socketId # last.name
           /\ out[1].to = {prev[i].socketId}

----------------------------------------------------------------------------
\* the target of the last inbound event, once trimmed, names a session
TargetResolves ==
    /\ last.name \notin {undefined, <<>>}
    /\ \E i \in 1..Len(prev) : IsTrimOf(prev[i].username, last.name)

(* C15: a typing_start or typing_stop of a joined sender is forwarded as one
   user_typing, with the sender's display name and the matching flag, to the
   socket a send_message with the same targetUser would deliver to (the
   first session named by the trimmed targetUser), and to nobody when that
   lookup fails. *)
C15_TypingResolvesLikeMessage ==
    (last.ev \in {"typing_start", "typing_stop"} /\ SenderJoined) =>
        IF TargetResolves
        THEN /\ Len(out) = 1
             /\ out[1].ev = "user_typing"
             /\ out[1].to = {Recipient.socketId}
             /\ out[1].payload.username = Sender.username
             /\ out[1].payload.isTyping = (last.ev = "typing_start")
        ELSE out = <<>>

(* C16: the confirmation of a delivered send_message or media_upload names
   the recipient: the to field of message_sent / media_sent is the display
   name of the session the payload was delivered to. *)
C16_EchoNamesRecipient ==
    (last.ev \in {"send_message", "media_upload"} /\ SenderJoined /\ TargetResolves) =>
        \A i \in Emitted("message_sent") \cup Emitted("media_sent") :
            out[i].payload.to = Recipient.username

----------------------------------------------------------------------------
(* C17: the registry, and so every list taken from it, holds the sessions in
   registration order: the join times of the records are non-decreasing along
   the list. *)
C17_RegistrationOrder ==
    \A i \in 1..Len(onlineUsers), j \in 1..Len(onlineUsers) :
        i < j => onlineUsers[i].joinTime <= onlineUsers[j].joinTime

----------------------------------------------------------------------------
(* C18: if the socket of a registered session is dead, then, the clock
   advancing and the cleanup timer firing again and again, the session is
   eventually out of the registry and an online_users list without it has
   been emitted. *)
C18_DeadSessionReaped ==
    \A c \in SocketIds :
        (sockets[c] = "dead" /\ BoundTo(onlineUsers, c) # {})
            ~> (/\ BoundTo(onlineUsers, c) = {}
                /\ \E i \in Emitted("online_users") : BoundTo(out[i].payload, c) = {})

\* a cleanup run has removed the session of a dead socket and told the clients
C18_Witness ==
    /\ last.ev = "sweep"
    /\ \E i \in 1..Len(prev) :
           /\ sockets[prev[i].socketId] = "dead"
           /\ BoundTo(onlineUsers, prev[i].socketId) = {}
    /\ Emitted("online_users") # {}

----------------------------------------------------------------------------
\* the routing and query events
RoutingEvents ==
    { "send_message", "media_upload", "typing_start", "typing_stop",
      "image_upload", "get_user_info", "ping" }

(* C19: a send_message, media_upload, typing_start, typing_stop,
   image_upload, get_user_info or ping, whatever its outcome, leaves the
   registry exactly as it was; the registry differs from what it was at the
   start of a step only after a user_join, a disconnect or a cleanup run. *)
C19_RoutingLeavesRegistry ==
    /\ last.ev \in RoutingEvents => onlineUsers = prev
    /\ onlineUsers # prev => last.ev \in {"user_join", "disconnect", "sweep"}

\* a typing signal of a joined sender has been forwarded
C19_Witness ==
    /\ last.ev = "typing_start"
    /\ SenderJoined
    /\ Emitted("user_typing") # {}
    /\ Len(prev) >= 2

----------------------------------------------------------------------------
\* the last inbound event is the late disconnect of a socket that had died and
\* whose session the cleanup had already removed
DisconnectAfterReaping ==
    /\ last.ev = "disconnect"
    /\ last.name = <<"ping timeout">>
    /\ BoundTo(prev, last.socket) = {}

(* C20: however cleanup runs and disconnects of one socket interleave, its
   session leaves the registry once, with one online_users emission: a
   disconnect or cleanup step emits as many online_users as sessions left the
   registry in it, no socket has two sessions to lose, the disconnect of a
   socket whose session the cleanup already removed emits nothing, and a
   cleanup run emits nothing but one online_users per session it removes, so
   nothing for a session a disconnect has removed before. *)
C20_RemovedOnce ==
    /\ \A c \in SocketIds : Cardinality(BoundTo(onlineUsers, c)) <= 1
    /\ last.ev \in {"disconnect", "sweep"} =>
           Cardinality(Emitted("online_users")) = Len(prev) - Len(onlineUsers)
    /\ DisconnectAfterReaping => (out = <<>> /\ onlineUsers = prev)
    /\ last.ev = "sweep" =>
           /\ Len(out) = Len(prev) - Len(onlineUsers)
           /\ \A c \in SocketIds :
                  BoundTo(prev, c) = {} => BoundTo(onlineUsers, c) = {}

\* the disconnect of a socket has arrived after the cleanup removed its session
C20_Witness ==
    /\ DisconnectAfterReaping
    /\ now > staleThreshold
    /\ out = <<>>

====
